---- MODULE Spec2Model ----
(***************************************************************************)
(* Model of go-pgproxy's queryHandler (src/main.go): one HTTP request is   *)
(* carried from the method check to the run of the deferred calls.  The    *)
(* collaborators the handler drives (the pgx cursor, the gzip writer, the  *)
(* json encoder, the net/http response writer) are modelled by the effect  *)
(* of the calls the handler makes on them.                                 *)
(***************************************************************************)
EXTENDS Naturals, Integers, Sequences, FiniteSets, TLC

\* ---- bounds ------------------------------------------------------------
\* most rows a cursor yields in one request
MaxRows == 2
\* requests in flight at once over the shared pool
NumReqs == 2
\* connections of the pool
PoolSize == 2

\* ---- program constants -------------------------------------------------
StatusOK == 200
StatusBadRequest == 400
StatusMethodNotAllowed == 405
StatusInternalServerError == 500
MethodPost == "POST"

\* ---- input domains -----------------------------------------------------
Methods == {"GET", "POST"}
\* a request body: decodable into SQLQuery or not
Bodies == {[wellFormed |-> TRUE, query |-> "SELECT"], [wellFormed |-> FALSE, query |-> ""]}
\* column descriptor lists a query can come back with
FieldSets == {<< >>, <<[Name |-> "a"]>>, <<[Name |-> "a"], [Name |-> "b"]>>}
\* scalar values of a row; NaN is a float8 value encoding/json refuses
Scalars == {"1", "2", "NaN"}
DbErrors == {"syntax error"}
NoErr == "nil"

VARIABLES
    pc,                \* position of the handler
    method, body,      \* the request
    cancelled,         \* the client has disconnected (r.Context() is done)
    bodyRead,          \* r.Body was handed to the json decoder
    querySubmitted,    \* db.Query was called
    acquires, releases,\* pool connections checked out / returned
    cursor,            \* "none", "open", "closed"
    closeCalls,        \* calls of rows.Close() made by the handler
    fieldDescriptions, columns,
    produced,          \* rows the cursor has yielded, in order
    held,              \* rows pulled and not yet handed to the encoder
    cursorErr,         \* rows.Err()
    headers,           \* w.Header(), a set of <<name, value>>
    status, wroteHeader, sentHeaders,
    attempts,          \* every code passed to w.WriteHeader, in order
    wBody,             \* what reached w, in order
    wFailed,           \* the connection's writer has a sticky error
    gz,                \* the gzip.Writer
    encoded,           \* records encoder.Encode has written to gz
    defers,            \* stack of deferred calls, top first
    exitPath,          \* which return statement the handler took
    pulledAfterCancel, \* rows pulled since the client disconnected
    logs               \* events queryHandler has written to the log

\* several invocations of queryHandler running at once over the pool db
VARIABLES
    hpc,               \* position of each invocation
    pool,              \* db: the connections that are idle
    rows,              \* the rows variable of each invocation: its connection
    connCursor,        \* per connection: whose query runs on it, rows yielded
    rowValues,         \* the values variable of each invocation
    out,               \* records written to each invocation's response
    usedConn           \* the connection each invocation last worked on

concVars == <<hpc, pool, rows, connCursor, rowValues, out, usedConn>>

Reqs == 1..NumReqs
Conns == 1..PoolSize
NoConn == 0
NoRow == [owner |-> 0, idx |-> 0]

\* what the invocations hold before any of them has run
ConcIdle ==
    /\ hpc = [r \in Reqs |-> "db_query"]
    /\ pool = Conns
    /\ rows = [r \in Reqs |-> NoConn]
    /\ connCursor = [c \in Conns |-> [owner |-> 0, pos |-> 0, open |-> FALSE]]
    /\ rowValues = [r \in Reqs |-> NoRow]
    /\ out = [r \in Reqs |-> << >>]
    /\ usedConn = [r \in Reqs |-> NoConn]

vars == <<hpc, pool, rows, connCursor, rowValues, out, usedConn,
          pc, method, body, cancelled, bodyRead, querySubmitted, acquires,
          releases, cursor, closeCalls, fieldDescriptions, columns, produced,
          held, cursorErr, headers, status, wroteHeader, sentHeaders, attempts,
          wBody, wFailed, gz, encoded, defers, exitPath, pulledAfterCancel, logs>>

reqVars == <<method, body>>
dbVars == <<querySubmitted, acquires, releases, cursor, closeCalls,
            fieldDescriptions, produced, cursorErr>>
respVars == <<headers, status, wroteHeader, sentHeaders, attempts, wBody, wFailed>>

\* ---- net/http response writer -----------------------------------------
\* the response as one value, so the calls below compose
Resp == [headers |-> headers, status |-> status, wroteHeader |-> wroteHeader,
         sentHeaders |-> sentHeaders, attempts |-> attempts, wBody |-> wBody,
         wFailed |-> wFailed]

SetResp(r) ==
    /\ headers' = r.headers
    /\ status' = r.status
    /\ wroteHeader' = r.wroteHeader
    /\ sentHeaders' = r.sentHeaders
    /\ attempts' = r.attempts
    /\ wBody' = r.wBody
    /\ wFailed' = r.wFailed

HeaderSet(h, k, v) == {p \in h : p[1] # k} \cup {<<k, v>>}
HeaderDel(h, k) == {p \in h : p[1] # k}

\* w.WriteHeader(code): the first call fixes the status and the headers; a
\* later call is superfluous and changes nothing
WriteHeader(r, code) ==
    IF r.wroteHeader
    THEN [r EXCEPT !.attempts = Append(@, code)]
    ELSE [r EXCEPT !.attempts = Append(@, code), !.status = code,
                   !.wroteHeader = TRUE, !.sentHeaders = r.headers]

\* w.Write(item): commits status 200 when no status was written yet.  The
\* write fails when the writer already failed, or (fault) when the client is
\* gone and earlier bytes of this response were already pushed to the socket.
WWrite(r, item, fault) ==
    LET r1 == IF r.wroteHeader THEN r ELSE WriteHeader(r, StatusOK)
    IN  IF r1.wFailed \/ (fault /\ cancelled /\ r1.wBody # << >>)
        THEN [r1 EXCEPT !.wFailed = TRUE]
        ELSE [r1 EXCEPT !.wBody = Append(@, item)]

Plain(text, err) == [via |-> "direct", text |-> text, err |-> err]
Gzipped(text) == [via |-> "gzip", text |-> text, err |-> NoErr]

\* http.Error(w, msg, code)
HttpError(r, text, err, code, fault) ==
    LET h1 == HeaderDel(r.headers, "Content-Length")
        h2 == HeaderSet(h1, "Content-Type", "text/plain; charset=utf-8")
        h3 == HeaderSet(h2, "X-Content-Type-Options", "nosniff")
        r1 == WriteHeader([r EXCEPT !.headers = h3], code)
    IN  WWrite(r1, Plain(text, err), fault)

\* ---- the state after the server has built the request ------------------
Init ==
    /\ pc = "check_method"
    /\ method \in Methods
    /\ body \in Bodies
    /\ cancelled = FALSE
    /\ bodyRead = FALSE
    /\ querySubmitted = FALSE
    /\ acquires = 0
    /\ releases = 0
    /\ cursor = "none"
    /\ closeCalls = 0
    /\ fieldDescriptions = << >>
    /\ columns = << >>
    /\ produced = << >>
    /\ held = << >>
    /\ cursorErr = NoErr
    /\ headers = {}
    /\ status = 0
    /\ wroteHeader = FALSE
    /\ sentHeaders = {}
    /\ attempts = << >>
    /\ wBody = << >>
    /\ wFailed = FALSE
    /\ gz = [opened |-> FALSE, wroteHeader |-> FALSE, buffered |-> 0,
             err |-> FALSE, closed |-> FALSE, closeCalls |-> 0, trailer |-> FALSE]
    /\ encoded = << >>
    /\ defers = << >>
    /\ exitPath = "running"
    /\ pulledAfterCancel = 0
    /\ logs = << >>
    /\ ConcIdle

\* ---- queryHandler -------------------------------------------------------
\* the method check left out: every method is let through
MethodAllowedAny(m) == TRUE
\* the check made against the wrong method: GET is let through
MethodAllowedNotPut(m) == m # "PUT"
MethodAllowed(m) == m = MethodPost

\* lines 47-50
CheckMethod ==
    /\ pc = "check_method"
    /\ IF MethodAllowed(method)
       THEN /\ pc' = "decode_body"
            /\ UNCHANGED <<respVars, exitPath>>
       ELSE /\ SetResp(HttpError(Resp, "Invalid request method", NoErr,
                                 StatusMethodNotAllowed, FALSE))
            /\ exitPath' = "method"
            /\ pc' = "return"
    /\ UNCHANGED <<reqVars, logs, concVars, dbVars, cancelled, bodyRead, columns, held, gz,
                   encoded, defers, pulledAfterCancel>>

\* lines 52-57
DecodeBody ==
    /\ pc = "decode_body"
    /\ bodyRead' = TRUE
    /\ IF body.wellFormed
       THEN /\ pc' = "db_query"
            /\ UNCHANGED <<respVars, exitPath>>
       ELSE /\ SetResp(HttpError(Resp, "Invalid request body", NoErr,
                                 StatusBadRequest, FALSE))
            /\ exitPath' = "body"
            /\ pc' = "return"
    /\ UNCHANGED <<reqVars, logs, concVars, dbVars, cancelled, columns, held, gz, encoded,
                   defers, pulledAfterCancel>>

\* a rejected query reported as a server error
QueryErrorStatus500 == StatusInternalServerError
\* status of the reply to a query the database rejects (line 61)
QueryErrorStatus == StatusBadRequest

\* lines 59-63: db.Query checks a connection out of the pool and submits the
\* text; when the submission fails the pool takes the connection back
DbQuery ==
    /\ pc = "db_query"
    /\ querySubmitted' = TRUE
    /\ \E outcome \in {"ok", "acquire_err", "query_err"} :
        \/ /\ outcome = "ok"
           /\ acquires' = acquires + 1
           /\ releases' = releases
           /\ cursor' = "open"
           /\ \E fds \in FieldSets : fieldDescriptions' = fds
           /\ pc' = "defer_rows_close"
           /\ UNCHANGED <<respVars, exitPath>>
        \/ /\ outcome = "acquire_err"
           /\ UNCHANGED <<acquires, releases, cursor, fieldDescriptions>>
           /\ \E e \in DbErrors :
                SetResp(HttpError(Resp, "Query error: %v", e, QueryErrorStatus, FALSE))
           /\ exitPath' = "query"
           /\ pc' = "return"
        \/ /\ outcome = "query_err"
           /\ acquires' = acquires + 1
           /\ releases' = releases + 1
           /\ UNCHANGED <<cursor, fieldDescriptions>>
           /\ \E e \in DbErrors :
                SetResp(HttpError(Resp, "Query error: %v", e, QueryErrorStatus, FALSE))
           /\ exitPath' = "query"
           /\ pc' = "return"
    /\ UNCHANGED <<reqVars, logs, concVars, cancelled, bodyRead, closeCalls, produced, cursorErr,
                   columns, held, gz, encoded, defers, pulledAfterCancel>>

\* a defer statement pushes its call on the stack of deferred calls
\* the defer statement forgotten: nothing is pushed
PushNothing(stack) == stack
\* a deferred call queued behind the earlier ones, so it runs after them
PushGzCloseLast(stack) == stack \o <<"gz.Close">>
PushRowsClose(stack) == <<"rows.Close">> \o stack
PushGzClose(stack) == <<"gz.Close">> \o stack

\* line 64
DeferRowsClose ==
    /\ pc = "defer_rows_close"
    /\ defers' = PushRowsClose(defers)
    /\ pc' = "get_columns"
    /\ UNCHANGED <<reqVars, logs, concVars, dbVars, respVars, cancelled, bodyRead, columns, held,
                   gz, encoded, exitPath, pulledAfterCancel>>

\* the names written back to front
getColumnNamesReversed(cols) == [i \in 1..Len(cols) |-> cols[Len(cols) + 1 - i].Name]
\* lines 114-120
getColumnNames(cols) == [i \in 1..Len(cols) |-> cols[i].Name]

\* lines 67-68
GetColumns ==
    /\ pc = "get_columns"
    /\ columns' = getColumnNames(fieldDescriptions)
    /\ pc' = "set_headers"
    /\ UNCHANGED <<reqVars, logs, concVars, dbVars, respVars, cancelled, bodyRead, held, gz,
                   encoded, defers, exitPath, pulledAfterCancel>>

\* lines 71-72
SetHeaders ==
    /\ pc = "set_headers"
    /\ headers' = HeaderSet(HeaderSet(headers, "Content-Encoding", "gzip"),
                            "Content-Type", "application/json")
    /\ pc' = "new_gzip"
    /\ UNCHANGED <<reqVars, logs, concVars, dbVars, status, wroteHeader, sentHeaders, attempts,
                   wBody, wFailed, cancelled, bodyRead, columns, held, gz,
                   encoded, defers, exitPath, pulledAfterCancel>>

\* line 73: gzip.NewWriter(w) writes nothing yet
NewGzipWriter ==
    /\ pc = "new_gzip"
    /\ gz' = [gz EXCEPT !.opened = TRUE]
    /\ pc' = "defer_gz_close"
    /\ UNCHANGED <<reqVars, logs, concVars, dbVars, respVars, cancelled, bodyRead, columns, held,
                   encoded, defers, exitPath, pulledAfterCancel>>

\* line 74
DeferGzClose ==
    /\ pc = "defer_gz_close"
    /\ defers' = PushGzClose(defers)
    /\ pc' = "encode_header"
    /\ UNCHANGED <<reqVars, logs, concVars, dbVars, respVars, cancelled, bodyRead, columns, held,
                   gz, encoded, exitPath, pulledAfterCancel>>

\* ---- compress/gzip writer over w ---------------------------------------
\* gz.Write(p): the first call writes the gzip header to w; the compressor
\* then keeps p buffered or (emit) pushes a deflate block to w.  An error of
\* w is kept in gz.err and fails every later call.
GzWrite(g, r, emit, fault) ==
    IF g.err THEN [g |-> g, r |-> r, ok |-> FALSE]
    ELSE LET r1 == IF g.wroteHeader THEN r ELSE WWrite(r, Gzipped("header"), fault)
             g1 == [g EXCEPT !.wroteHeader = TRUE]
         IN  IF r1.wFailed THEN [g |-> [g1 EXCEPT !.err = TRUE], r |-> r1, ok |-> FALSE]
             ELSE IF ~emit
             THEN [g |-> [g1 EXCEPT !.buffered = @ + 1], r |-> r1, ok |-> TRUE]
             ELSE LET r2 == WWrite(r1, Gzipped("deflate"), fault)
                  IN  IF r2.wFailed
                      THEN [g |-> [g1 EXCEPT !.err = TRUE], r |-> r2, ok |-> FALSE]
                      ELSE [g |-> [g1 EXCEPT !.buffered = 0], r |-> r2, ok |-> TRUE]

\* gz.Close(): does nothing on a writer that failed or is closed; otherwise
\* writes the header if no Write did, the final deflate block with what is
\* buffered, and the trailer (CRC-32 and size)
GzClose(g, r, fault) ==
    LET g0 == [g EXCEPT !.closeCalls = @ + 1]
    IN  IF g0.err \/ g0.closed THEN [g |-> g0, r |-> r]
        ELSE LET g1 == [g0 EXCEPT !.closed = TRUE, !.wroteHeader = TRUE]
                 r1 == IF g0.wroteHeader THEN r ELSE WWrite(r, Gzipped("header"), fault)
             IN  IF r1.wFailed THEN [g |-> [g1 EXCEPT !.err = TRUE], r |-> r1]
                 ELSE LET r2 == WWrite(r1, Gzipped("final"), fault)
                      IN  IF r2.wFailed THEN [g |-> [g1 EXCEPT !.err = TRUE], r |-> r2]
                          ELSE LET r3 == WWrite(r2, Gzipped("trailer"), fault)
                                   g2 == [g1 EXCEPT !.buffered = 0]
                               IN  IF r3.wFailed
                                   THEN [g |-> [g2 EXCEPT !.err = TRUE], r |-> r3]
                                   ELSE [g |-> [g2 EXCEPT !.trailer = TRUE], r |-> r3]

\* ---- encoding/json encoder over gz -------------------------------------
\* json.Marshal refuses NaN
Marshalable(rec) ==
    \A i \in 1..Len(rec.rows) : \A j \in 1..Len(rec.rows[i]) : rec.rows[i][j] # "NaN"

\* encoder.Encode(rec): marshal, then one gz.Write of the bytes
Encode(g, r, rec, emit, fault) ==
    IF ~Marshalable(rec) THEN [g |-> g, r |-> r, ok |-> FALSE]
    ELSE GzWrite(g, r, emit, fault)

\* lines 80-83
HeaderRecord(cols) == [columns |-> cols, rows |-> << >>]
\* the row left out of its record
RowRecordEmpty(values) == [rows |-> << >>]
\* lines 99-101
RowRecord(values) == [rows |-> <<values>>]

\* lines 77-88
EncodeHeader ==
    /\ pc = "encode_header"
    /\ \E emit \in BOOLEAN, fault \in BOOLEAN :
        LET rec == HeaderRecord(columns)
            res == Encode(gz, Resp, rec, emit, fault)
        IN  /\ gz' = res.g
            /\ IF res.ok
               THEN /\ SetResp(res.r)
                    /\ encoded' = Append(encoded, rec)
                    /\ pc' = "rows_next"
                    /\ UNCHANGED exitPath
               ELSE /\ SetResp(HttpError(res.r, "Error encoding response: %v",
                                         "encode error", StatusInternalServerError, fault))
                    /\ exitPath' = "header_encode"
                    /\ pc' = "return"
                    /\ UNCHANGED encoded
    /\ UNCHANGED <<reqVars, logs, concVars, dbVars, cancelled, bodyRead, columns, held, defers,
                   pulledAfterCancel>>

\* line 91: rows.Next() yields a row, the end of the result or a failure
RowsNext ==
    /\ pc = "rows_next"
    /\ \/ /\ Len(produced) < MaxRows
          /\ \E row \in [1..Len(fieldDescriptions) -> Scalars] :
                /\ produced' = Append(produced, row)
                /\ held' = Append(held, row)
          /\ pulledAfterCancel' = IF cancelled THEN pulledAfterCancel + 1
                                  ELSE pulledAfterCancel
          /\ pc' = "rows_values"
          /\ UNCHANGED cursorErr
       \/ /\ \E e \in {NoErr, "conn lost"} : cursorErr' = e
          /\ pc' = "check_rows_err"
          /\ UNCHANGED <<produced, held, pulledAfterCancel>>
    /\ UNCHANGED <<reqVars, logs, concVars, querySubmitted, acquires, releases, cursor, closeCalls,
                   fieldDescriptions, respVars, cancelled, bodyRead, columns, gz,
                   encoded, defers, exitPath>>

\* the loop pulling the next row without writing this one
AfterValuesSkipWrite == "rows_next"
\* where the loop body goes once rows.Values() has returned the row (line 99)
AfterValues == "encode_row"

\* lines 92-96
RowsValues ==
    /\ pc = "rows_values"
    /\ \E ok \in BOOLEAN, fault \in BOOLEAN :
        IF ok
        THEN /\ pc' = AfterValues
             /\ UNCHANGED <<respVars, exitPath>>
        ELSE /\ SetResp(HttpError(Resp, "Error reading row: %v", "decode error",
                                  StatusInternalServerError, fault))
             /\ exitPath' = "row_read"
             /\ pc' = "return"
    /\ UNCHANGED <<reqVars, logs, concVars, dbVars, cancelled, bodyRead, columns, held, gz,
                   encoded, defers, pulledAfterCancel>>

\* the loop going on to the next row after a row failed to encode
AfterRowEncodeErrorContinue == "rows_next"
\* line 104: a row that fails to encode ends the handler
AfterRowEncodeError == "return"

\* lines 99-105
EncodeRow ==
    /\ pc = "encode_row"
    /\ held' = << >>
    /\ \E emit \in BOOLEAN, fault \in BOOLEAN :
        LET rec == RowRecord(held[Len(held)])
            res == Encode(gz, Resp, rec, emit, fault)
        IN  /\ gz' = res.g
            /\ IF res.ok
               THEN /\ SetResp(res.r)
                    /\ encoded' = Append(encoded, rec)
                    /\ pc' = "rows_next"
                    /\ UNCHANGED exitPath
               ELSE /\ SetResp(HttpError(res.r, "Error encoding row: %v",
                                         "encode error", StatusInternalServerError, fault))
                    /\ exitPath' = "row_encode"
                    /\ pc' = AfterRowEncodeError
                    /\ UNCHANGED encoded
    /\ UNCHANGED <<reqVars, logs, concVars, dbVars, cancelled, bodyRead, columns, defers,
                   pulledAfterCancel>>

\* lines 108-112
CheckRowsErr ==
    /\ pc = "check_rows_err"
    /\ IF cursorErr # NoErr
       THEN /\ \E fault \in BOOLEAN :
                SetResp(HttpError(Resp, "Query error: %v", cursorErr,
                                  StatusInternalServerError, fault))
            /\ exitPath' = "cursor_err"
       ELSE /\ UNCHANGED respVars
            /\ exitPath' = "ok"
    /\ pc' = "return"
    /\ UNCHANGED <<reqVars, logs, concVars, dbVars, cancelled, bodyRead, columns, held, gz,
                   encoded, defers, pulledAfterCancel>>

\* ---- return: the deferred calls run, last deferred first ---------------
\* line 74, run at return
RunGzClose ==
    /\ pc = "return"
    /\ defers # << >>
    /\ Head(defers) = "gz.Close"
    /\ defers' = Tail(defers)
    /\ \E fault \in BOOLEAN :
        LET res == GzClose(gz, Resp, fault)
        IN  /\ gz' = res.g
            /\ SetResp(res.r)
    /\ UNCHANGED <<pc, reqVars, logs, concVars, dbVars, cancelled, bodyRead, columns, held,
                   encoded, exitPath, pulledAfterCancel>>

\* line 64, run at return: rows.Close() closes an open cursor and gives its
\* connection back to the pool; on a closed cursor it does nothing
RunRowsClose ==
    /\ pc = "return"
    /\ defers # << >>
    /\ Head(defers) = "rows.Close"
    /\ defers' = Tail(defers)
    /\ closeCalls' = closeCalls + 1
    /\ IF cursor = "open"
       THEN /\ cursor' = "closed"
            /\ releases' = releases + 1
       ELSE UNCHANGED <<cursor, releases>>
    /\ UNCHANGED <<pc, reqVars, logs, concVars, querySubmitted, acquires, fieldDescriptions,
                   produced, cursorErr, respVars, cancelled, bodyRead, columns,
                   held, gz, encoded, exitPath, pulledAfterCancel>>

\* the handler has returned
Return ==
    /\ pc = "return"
    /\ defers = << >>
    /\ pc' = "done"
    /\ UNCHANGED <<reqVars, logs, concVars, dbVars, respVars, cancelled, bodyRead, columns, held,
                   gz, encoded, defers, exitPath, pulledAfterCancel>>

\* ---- the client ----------------------------------------------------------
\* the client goes away while the handler runs: the request's context is
\* cancelled and the socket stops taking bytes
ClientDisconnect ==
    /\ pc # "done"
    /\ ~cancelled
    /\ cancelled' = TRUE
    /\ UNCHANGED <<pc, reqVars, logs, concVars, dbVars, respVars, bodyRead, columns, held, gz,
                   encoded, defers, exitPath, pulledAfterCancel>>

Next ==
    \/ CheckMethod
    \/ DecodeBody
    \/ DbQuery
    \/ DeferRowsClose
    \/ GetColumns
    \/ SetHeaders
    \/ NewGzipWriter
    \/ DeferGzClose
    \/ EncodeHeader
    \/ RowsNext
    \/ RowsValues
    \/ EncodeRow
    \/ CheckRowsErr
    \/ RunGzClose
    \/ RunRowsClose
    \/ Return
    \/ ClientDisconnect

Spec == Init /\ [][Next]_vars

\* the steps of the handler itself, the client's move left out
HandlerStep ==
    \/ CheckMethod \/ DecodeBody \/ DbQuery \/ DeferRowsClose \/ GetColumns
    \/ SetHeaders \/ NewGzipWriter \/ DeferGzClose \/ EncodeHeader \/ RowsNext
    \/ RowsValues \/ EncodeRow \/ CheckRowsErr \/ RunGzClose \/ RunRowsClose
    \/ Return

\* the handler's goroutine keeps running: every call it makes on the pool,
\* the cursor or the writer comes back, with a result or with an error
FairSpec == Init /\ [][Next]_vars /\ WF_vars(HandlerStep)

\* ---- concurrent invocations over the shared pool ---------------------
\* the place an invocation keeps its cursor in: one shared by all of them
RowsSlotShared(r) == 1
\* line 59: rows is a local variable, every invocation has its own
RowsSlot(r) == r

\* the connection behind the cursor invocation r works with
ConnOf(r) == rows[RowsSlot(r)]

\* line 59: db.Query waits for an idle connection, checks it out and runs
\* the query on it, or fails and holds nothing
ConcQuery(r) ==
    /\ hpc[r] = "db_query"
    /\ \/ /\ \E c \in pool :
                /\ pool' = pool \ {c}
                /\ connCursor' = [connCursor EXCEPT ![c] =
                                    [owner |-> r, pos |-> 0, open |-> TRUE]]
                /\ rows' = [rows EXCEPT ![RowsSlot(r)] = c]
                /\ usedConn' = [usedConn EXCEPT ![r] = c]
          /\ hpc' = [hpc EXCEPT ![r] = "encode_header"]
       \/ /\ hpc' = [hpc EXCEPT ![r] = "done"]
          /\ UNCHANGED <<pool, connCursor, rows, usedConn>>
    /\ UNCHANGED <<rowValues, out>>

\* lines 67-88: the header is built from the descriptors of the cursor in
\* rows and written to this invocation's encoder
ConcEncodeHeader(r) ==
    /\ hpc[r] = "encode_header"
    /\ usedConn' = [usedConn EXCEPT ![r] = ConnOf(r)]
    /\ \/ /\ out' = [out EXCEPT ![r] =
                        Append(@, [owner |-> connCursor[ConnOf(r)].owner, idx |-> 0])]
          /\ hpc' = [hpc EXCEPT ![r] = "rows_next"]
       \/ /\ hpc' = [hpc EXCEPT ![r] = "return"]
          /\ UNCHANGED out
    /\ UNCHANGED <<pool, rows, connCursor, rowValues>>

\* lines 91-92: rows.Next() and rows.Values() on the cursor in rows
ConcRowsNext(r) ==
    /\ hpc[r] = "rows_next"
    /\ usedConn' = [usedConn EXCEPT ![r] = ConnOf(r)]
    /\ LET c == ConnOf(r)
           cur == connCursor[c]
       IN  \/ /\ cur.open
              /\ cur.pos < MaxRows
              /\ connCursor' = [connCursor EXCEPT ![c].pos = cur.pos + 1]
              /\ rowValues' = [rowValues EXCEPT ![r] =
                                [owner |-> cur.owner, idx |-> cur.pos + 1]]
              /\ hpc' = [hpc EXCEPT ![r] = "encode_row"]
           \/ /\ hpc' = [hpc EXCEPT ![r] = "return"]
              /\ UNCHANGED <<connCursor, rowValues>>
    /\ UNCHANGED <<pool, rows, out>>

\* lines 99-105
ConcEncodeRow(r) ==
    /\ hpc[r] = "encode_row"
    /\ \/ /\ out' = [out EXCEPT ![r] = Append(@, rowValues[r])]
          /\ hpc' = [hpc EXCEPT ![r] = "rows_next"]
       \/ /\ hpc' = [hpc EXCEPT ![r] = "return"]
          /\ UNCHANGED out
    /\ UNCHANGED <<pool, rows, connCursor, rowValues, usedConn>>

\* lines 64, 74: the deferred calls; rows.Close() closes the cursor in rows
\* and gives its connection back, once
ConcReturn(r) ==
    /\ hpc[r] = "return"
    /\ LET c == ConnOf(r)
       IN  IF connCursor[c].open
           THEN /\ connCursor' = [connCursor EXCEPT ![c].open = FALSE]
                /\ pool' = pool \cup {c}
           ELSE UNCHANGED <<connCursor, pool>>
    /\ hpc' = [hpc EXCEPT ![r] = "done"]
    /\ UNCHANGED <<rows, rowValues, out, usedConn>>

\* the single-request state, left alone while the invocations run
oneVars == <<pc, method, body, cancelled, bodyRead, querySubmitted, acquires,
             releases, cursor, closeCalls, fieldDescriptions, columns, produced,
             held, cursorErr, headers, status, wroteHeader, sentHeaders,
             attempts, wBody, wFailed, gz, encoded, defers, exitPath,
             pulledAfterCancel, logs>>

ConcInit == Init /\ method = MethodPost /\ body.wellFormed

ConcNext ==
    \E r \in Reqs :
        /\ \/ ConcQuery(r)
           \/ ConcEncodeHeader(r)
           \/ ConcRowsNext(r)
           \/ ConcEncodeRow(r)
           \/ ConcReturn(r)
        /\ UNCHANGED oneVars

ConcSpec == ConcInit /\ [][ConcNext]_vars

\* ---- properties ----------------------------------------------------------
RECURSIVE ConcatRows(_)
\* the rows of a sequence of records, in record order
ConcatRows(recs) ==
    IF recs = << >> THEN << >> ELSE Head(recs).rows \o ConcatRows(Tail(recs))

IsHeaderRec(rec) == "columns" \in DOMAIN rec
RowsStreamed == IF encoded = << >> THEN 0 ELSE Len(encoded) - 1
Finished == pc = "done"

\* C1: when the query opened and the cursor ran to its end without failure,
\* the records written through the encoder are one header record, first,
\* then row records whose rows, concatenated, are the rows the cursor
\* produced, in the cursor's order.
C1_HeaderThenRowsInOrder ==
    exitPath = "ok" =>
        /\ Len(encoded) >= 1
        /\ IsHeaderRec(encoded[1])
        /\ encoded[1].columns = columns
        /\ \A i \in 2..Len(encoded) : ~IsHeaderRec(encoded[i])
        /\ ConcatRows(Tail(encoded)) = produced

C1_Witness ==
    /\ Finished
    /\ exitPath = "ok"
    /\ Len(produced) = 2
    /\ produced[1] # produced[2]

C1_WitnessEmpty == Finished /\ exitPath = "ok" /\ produced = << >>

\* C2 (as claimed): a request that failed after at least one row record was
\* streamed never gets the gzip trailer written.
C2_NoTrailerAfterMidStreamFailure ==
    (exitPath \in {"row_read", "row_encode", "cursor_err"} /\ RowsStreamed >= 1)
        => ~gz.trailer

\* C3 (as claimed): once the compression filter is open, nothing reaches the
\* response body except through it.
C3_NoErrorPayloadAfterBegin ==
    gz.opened => \A i \in 1..Len(wBody) : wBody[i].via = "gzip"

\* C4 (as claimed): once the header record is written the status is 200 and
\* no call tries to set another status.
C4_StatusCommitted ==
    Len(encoded) >= 1 =>
        /\ status = StatusOK
        /\ \A i \in 1..Len(attempts) : attempts[i] = StatusOK

\* C5: a query the database rejects at submission is answered 400 with a
\* plain-text body carrying the error text; no record is written, no
\* compressed byte exists and the compression filter is never opened.
C5_QueryRejectedBeforeStream ==
    exitPath = "query" =>
        /\ status = StatusBadRequest
        /\ Len(wBody) = 1
        /\ wBody[1].via = "direct"
        /\ wBody[1].err \in DbErrors
        /\ <<"Content-Type", "text/plain; charset=utf-8">> \in sentHeaders
        /\ encoded = << >>
        /\ ~gz.opened
        /\ ~gz.wroteHeader

C5_Witness == Finished /\ exitPath = "query" /\ acquires = 1

\* C6: a request that is not POST is answered 405 and its body is never
\* read; a POST whose body does not decode is answered 400; in both cases no
\* query is submitted, no connection is acquired and no record is written.
C6_RequestErrorsBeforeProcessing ==
    /\ (method # MethodPost /\ pc # "check_method") =>
            /\ exitPath = "method"
            /\ status = StatusMethodNotAllowed
            /\ ~bodyRead
    /\ (method = MethodPost /\ ~body.wellFormed
            /\ pc \notin {"check_method", "decode_body"}) =>
            /\ exitPath = "body"
            /\ status = StatusBadRequest
    /\ exitPath \in {"method", "body"} =>
            /\ ~querySubmitted
            /\ acquires = 0
            /\ cursor = "none"
            /\ encoded = << >>
            /\ ~gz.opened
            /\ \A i \in 1..Len(wBody) : wBody[i].via = "direct"

C6_Witness == Finished /\ exitPath = "method" /\ ~body.wellFormed

C6_WitnessBody == Finished /\ exitPath = "body"

\* C7: when the query opened, the handler has called rows.Close() exactly
\* once by the time it returns, on every exit path; the cursor is closed and
\* the connection is back in the pool.
C7_CursorClosedOnce ==
    /\ closeCalls <= 1
    /\ releases <= acquires
    /\ (Finished /\ cursor # "none") =>
            /\ closeCalls = 1
            /\ cursor = "closed"
            /\ releases = acquires

C7_Witness ==
    /\ Finished
    /\ exitPath = "cursor_err"
    /\ RowsStreamed >= 1
    /\ cursor = "closed"

C9_CancellationObserved == pulledAfterCancel <= 1

\* C10: the handler holds at most one row pulled from the cursor and not
\* yet handed to the encoder, and whenever it is about to advance the cursor
\* the record of every row pulled so far has been written.
C10_Backpressure ==
    /\ Len(held) <= 1
    /\ pc = "rows_next" =>
            /\ held = << >>
            /\ Len(encoded) = Len(produced) + 1

C10_Witness ==
    /\ pc = "encode_row"
    /\ Len(held) = 1
    /\ Len(produced) = 2

\* C11: the column names of the header record are the names of the column
\* descriptors the database returned, as many and in the same order.
C11_ColumnNamesMatchDescriptors ==
    \A k \in 1..Len(encoded) :
        IsHeaderRec(encoded[k]) =>
            /\ Len(encoded[k].columns) = Len(fieldDescriptions)
            /\ \A i \in 1..Len(fieldDescriptions) :
                    encoded[k].columns[i] = fieldDescriptions[i].Name

C11_Witness ==
    /\ Len(encoded) >= 1
    /\ IsHeaderRec(encoded[1])
    /\ Len(fieldDescriptions) = 2
    /\ fieldDescriptions[1].Name # fieldDescriptions[2].Name

\* C12 (as claimed): the header record has the single key columns, and
\* every record with a rows key carries one or more rows.
C12_RecordShape ==
    \A k \in 1..Len(encoded) :
        /\ IsHeaderRec(encoded[k]) => DOMAIN encoded[k] = {"columns"}
        /\ "rows" \in DOMAIN encoded[k] => Len(encoded[k].rows) >= 1

\* C13: once a failure has made the handler leave, or the cursor has
\* reported its end, no step advances the cursor or writes another record.
C13_NoIterationAfterEndOrFailure ==
    [][(exitPath # "running" \/ pc \in {"check_rows_err", "return", "done"}) =>
            /\ produced' = produced
            /\ encoded' = encoded
            /\ pc' \notin {"rows_next", "rows_values", "encode_row"}]_vars

C13_Witness ==
    /\ Finished
    /\ exitPath = "row_encode"
    /\ Len(produced) = 1
    /\ Len(encoded) = 1

\* C16: a request answered before the stream (wrong method, undecodable
\* body, rejected query) never has Content-Encoding: gzip among its headers
\* and nothing of its body passes through the compression filter; the two
\* stream headers exist only once the query has opened.
C16_NoGzipHeaderOnPreStreamError ==
    /\ (\/ method # MethodPost /\ pc # "check_method"
        \/ exitPath \in {"method", "body", "query"}) =>
            /\ <<"Content-Encoding", "gzip">> \notin sentHeaders
            /\ <<"Content-Encoding", "gzip">> \notin headers
            /\ <<"Content-Type", "application/json">> \notin sentHeaders
            /\ ~gz.opened
            /\ \A i \in 1..Len(wBody) : wBody[i].via = "direct"
    /\ <<"Content-Encoding", "gzip">> \in headers => cursor # "none"

C16_Witness ==
    /\ Finished
    /\ exitPath = "query"
    /\ wroteHeader
    /\ Len(wBody) = 1

StreamingErrorPaths == {"header_encode", "row_read", "row_encode", "cursor_err"}

\* C14 (as claimed): a request that ended on a streaming error has a log
\* event for the failure, and nothing but the log signals it: no error
\* payload is in the response body and no other status was attempted.
C14_FailureLoggedOnly ==
    (Finished /\ exitPath \in StreamingErrorPaths) =>
        /\ Len(logs) >= 1
        /\ \A i \in 1..Len(wBody) : wBody[i].via = "gzip"
        /\ \A i \in 1..Len(attempts) : attempts[i] = StatusOK

\* C18: when every pool, cursor and writer call comes back and the cursor
\* is finite, the handler eventually returns, with no cursor left open and
\* every connection it checked out back in the pool.
C18_HandlerReturnsReleased ==
    <>(Finished /\ cursor # "open" /\ releases = acquires)

C18_Witness ==
    /\ Finished
    /\ cursor = "closed"
    /\ releases = 1
    /\ Len(produced) = MaxRows

InFlight(r) == hpc[r] \in {"encode_header", "rows_next", "encode_row", "return"}

====
